---- MODULE Spec2Model ----
(***************************************************************************)
(* The automaton engine of the repository: the DFA value type of           *)
(* src/dfa.py (construction, step, accepts, minimize, product,             *)
(* is_equivalent) and the decision-tree-to-DFA builder of                  *)
(* src/tree_to_dfa.py.                                                     *)
(*                                                                         *)
(* Encoding of Python values.  A state identifier is a tuple: the integer  *)
(* i is <<i>>, the pair (p, q) of product() is <<p, q>>, and None is the   *)
(* empty tuple.  A transition table transitions[q][symbol] is a function   *)
(* whose domain is the set of <<q, symbol>> pairs that have an entry.  A   *)
(* raised exception is the record [exc |-> name].                          *)
(***************************************************************************)
EXTENDS Integers, Sequences, FiniteSets, TLC

VARIABLES
  dfa,    \* the automaton the calls are made on
  other,  \* the second operand of product / is_equivalent
  last    \* the last call: its name, its arguments and what it returned or raised

vars == <<dfa, other, last>>

\* ------------------------------------------------------------------ bounds
\* state identifiers 0 .. NumBuilderIds-1 for automata built call by call
NumBuilderIds == 2
\* state identifiers 0 .. NumIds-1 for the automata minimize is applied to
NumIds == 3
\* state identifiers and defined transitions of the one-letter automata
NumSparseIds == 5
MaxEdges == 3
\* state identifiers of the two operands of product / is_equivalent
NumPairIds == 2
\* longest word tried
MaxWordLen == 3
\* largest max_len given to tree_to_dfa, largest threshold of a tree node
MaxPrefixLen == 3
MaxThreshold == 1
\* state identifiers of the automaton queried, longest word passed to accepts
NumQueryIds == 2
MaxQueryWordLen == 2
\* longest prefix folded symbol by symbol into a primitive state
MaxFeatureWordLen == 6
\* longest word a teacher automaton is asked about
MaxTeacherWordLen == 4
\* states and defined transitions of the automata whose refinement loop is
\* followed step by step
NumRefineIds == 4
MaxRefineEdges == 3

\* ------------------------------------------------------------ Python values
None == << >>

Id(i) == <<i>>

IdsBelow(n) == {Id(i) : i \in 0 .. n - 1}

\* an exception leaving a call; Raise also keeps the receiver as the call
\* left it (Python methods mutate in place)
Exc(name) == [exc |-> name]

Raise(name, self) == [exc |-> name, self |-> self]

IsExc(v) == "exc" \in DOMAIN v

\* a value returned by a call that may also raise
Returned(v) == [ret |-> v]

DefaultAlphabet == <<"a", "b">>

SeqRange(s) == {s[i] : i \in 1 .. Len(s)}

RECURSIVE WordsOfLen(_, _)
WordsOfLen(alphabet, n) ==
  IF n = 0 THEN {<< >>}
  ELSE {Append(w, c) : w \in WordsOfLen(alphabet, n - 1), c \in SeqRange(alphabet)}

WordsUpTo(alphabet, n) == UNION {WordsOfLen(alphabet, k) : k \in 0 .. n}

\* ------------------------------------------------------------------ DFA
\* DFA.__init__
NewDFA(alphabet) ==
  [alphabet |-> alphabet,
   states |-> {},
   start_state |-> None,
   accepting_states |-> {},
   transitions |-> << >>]

\* The parameter names of add_state: a call that passes its flag under a
\* keyword that is none of them raises TypeError (Python's call binding).
add_state_params == {"state", "accepting_states"}

\* DFA.add_state; kw is the name the flag is bound to (a positional second
\* argument binds to "accepting_states").
add_state(self, state, kw, flag) ==
  IF kw \notin add_state_params THEN Raise("TypeError", self)
  ELSE [self EXCEPT !.states = @ \cup {state},
                    !.accepting_states = IF flag THEN @ \cup {state} ELSE @]

\* set_start recording the start state without registering it
set_start_unregistered(self, state) == [self EXCEPT !.start_state = state]

\* DFA.set_start
set_start(self, state) ==
  [self EXCEPT !.states = @ \cup {state}, !.start_state = state]

\* DFA.set_accepting_state
set_accepting_state(self, state, val) ==
  [self EXCEPT !.accepting_states = IF val THEN @ \cup {state} ELSE @ \ {state}]

\* add_transition registering its endpoints before it validates the symbol
add_transition_unchecked(self, q_old, symbol, q_new) ==
  IF symbol \notin SeqRange(self.alphabet)
  THEN Raise("ValueError", [self EXCEPT !.states = @ \cup {q_old, q_new}])
  ELSE [self EXCEPT !.states = @ \cup {q_old, q_new},
                    !.transitions = (<<q_old, symbol>> :> q_new) @@ @]

\* add_transition keeping the target already recorded for (q_old, symbol)
add_transition_first_write(self, q_old, symbol, q_new) ==
  IF symbol \notin SeqRange(self.alphabet) THEN Raise("ValueError", self)
  ELSE [self EXCEPT !.states = @ \cup {q_old, q_new},
                    !.transitions = @ @@ (<<q_old, symbol>> :> q_new)]

\* DFA.add_transition
add_transition(self, q_old, symbol, q_new) ==
  IF symbol \notin SeqRange(self.alphabet) THEN Raise("ValueError", self)
  ELSE [self EXCEPT !.states = @ \cup {q_old, q_new},
                    !.transitions = (<<q_old, symbol>> :> q_new) @@ @]

\* DFA.step
step(self, state, symbol) ==
  IF <<state, symbol>> \in DOMAIN self.transitions
  THEN self.transitions[<<state, symbol>>]
  ELSE None

\* accepts returning inside the loop, after the first symbol (the earlier
\* revision of the acceptance check)
accepts_from_first_symbol(self, s, word, i) ==
  IF i > Len(word) THEN s \in self.accepting_states
  ELSE LET s2 == step(self, s, word[i])
       IN IF s2 = None THEN FALSE ELSE s2 \in self.accepting_states

\* DFA.accepts: the loop over word from position i with current state s
RECURSIVE accepts_from(_, _, _, _)
accepts_from(self, s, word, i) ==
  IF i > Len(word) THEN s \in self.accepting_states
  ELSE LET s2 == step(self, s, word[i])
       IN IF s2 = None THEN FALSE
          ELSE accepts_from(self, s2, word, i + 1)

accepts(self, word) == accepts_from(self, self.start_state, word, 1)

\* ------------------------------------------------------------- minimize
\* list.remove(x): drops the first element equal to x
RECURSIVE ListRemove(_, _)
ListRemove(l, x) ==
  IF l = << >> THEN << >>
  ELSE IF Head(l) = x THEN Tail(l)
  ELSE <<Head(l)>> \o ListRemove(Tail(l), x)

\* X = {q for q in self.states if self.step(q, c) in A}
Preimage(self, c, A) == {q \in self.states : step(self, q, c) \in A}

\* the inner loop "for Y in P" from index k on; PW = [P |-> newP, W |-> W]
RECURSIVE refine_blocks(_, _, _, _, _)
refine_blocks(X, P, k, newP, W) ==
  IF k > Len(P) THEN [P |-> newP, W |-> W]
  ELSE LET Y == P[k]
           i == X \cap Y
           d == Y \ X
       IN IF i # {} /\ d # {}
          THEN refine_blocks(X, P, k + 1, newP \o <<i, d>>,
                 IF Y \in SeqRange(W)
                 THEN ListRemove(W, Y) \o <<i, d>>
                 ELSE Append(W, IF Cardinality(i) <= Cardinality(d) THEN i ELSE d))
          ELSE refine_blocks(X, P, k + 1, Append(newP, Y), W)

\* the loop "for c in self.alphabet" from index j on, for the splitter A
RECURSIVE refine_symbols(_, _, _, _, _)
refine_symbols(self, A, j, P, W) ==
  IF j > Len(self.alphabet) THEN [P |-> P, W |-> W]
  ELSE LET r == refine_blocks(Preimage(self, self.alphabet[j], A), P, 1, << >>, W)
       IN refine_symbols(self, A, j + 1, r.P, r.W)

\* the loop "while W": A = W.pop() takes the last element
RECURSIVE refine(_, _, _)
refine(self, P, W) ==
  IF W = << >> THEN P
  ELSE LET r == refine_symbols(self, W[Len(W)], 1, P, SubSeq(W, 1, Len(W) - 1))
       IN refine(self, r.P, r.W)

\* lines 106-129: the partition the refinement loop ends with
partition(self) ==
  refine(self,
         <<self.accepting_states, self.states \ self.accepting_states>>,
         <<self.accepting_states>>)

\* lines 132-135: mapping[s] = i for i, block in enumerate(P), later blocks
\* overwriting earlier ones; block indices start at 0
MappingDomain(P) == UNION SeqRange(P)

\* mapping[s] = s: every state mapped to itself instead of to its block
mapping_identity(P, s) == s

mapping(P, s) ==
  Id((CHOOSE k \in 1 .. Len(P) :
        s \in P[k] /\ \A m \in k + 1 .. Len(P) : s \notin P[m]) - 1)

\* lines 138-139: new.add_state(new_id, old in self.accepting_states) for
\* every entry of mapping (add_state only ever adds, so the order of the
\* entries does not matter)
RECURSIVE add_mapped_states(_, _, _, _)
add_mapped_states(self, P, new, todo) ==
  IF todo = {} THEN new
  ELSE LET old == CHOOSE s \in todo : TRUE
       IN add_mapped_states(self, P,
            add_state(new, mapping(P, old), "accepting_states",
                      old \in self.accepting_states),
            todo \ {old})

\* lines 144-147: the loop "for a in self.alphabet" for one state q
RECURSIVE add_mapped_symbols(_, _, _, _, _)
add_mapped_symbols(self, P, new, q, j) ==
  IF j > Len(self.alphabet) THEN new
  ELSE LET a == self.alphabet[j]
           nxt == step(self, q, a)
       IN add_mapped_symbols(self, P,
            IF nxt # None
            THEN add_transition(new, mapping(P, q), a, mapping(P, nxt))
            ELSE new,
            q, j + 1)

\* lines 143-147: the loop "for q in self.states", in the iteration order
\* order (a sequence listing self.states)
RECURSIVE add_mapped_transitions(_, _, _, _, _)
add_mapped_transitions(self, P, new, order, k) ==
  IF k > Len(order) THEN new
  ELSE add_mapped_transitions(self, P,
         add_mapped_symbols(self, P, new, order[k], 1), order, k + 1)

\* lines 131-149: the automaton built from the final partition P
build_minimized(self, P, order) ==
  IF self.start_state \notin MappingDomain(P) THEN Exc("KeyError")
  ELSE add_mapped_transitions(self, P,
         set_start(add_mapped_states(self, P, NewDFA(self.alphabet),
                                     MappingDomain(P)),
                   mapping(P, self.start_state)),
         order, 1)

\* Line 143 iterates the set self.states, whose order Python leaves open.
\* Two states write the same key (mapping[q], a) only when they share a
\* block; when all writers of a key write the same target every order
\* builds the same table, and one order stands for all of them.
RECURSIVE SetToSeq(_)
SetToSeq(S) ==
  IF S = {} THEN << >>
  ELSE LET x == CHOOSE x \in S : TRUE IN <<x>> \o SetToSeq(S \ {x})

ListingsOf(S) ==
  {o \in [1 .. Cardinality(S) -> S] : \A s \in S : \E k \in DOMAIN o : o[k] = s}

WritersAgree(self, P) ==
  \A q1 \in self.states, q2 \in self.states, a \in SeqRange(self.alphabet) :
    (/\ mapping(P, q1) = mapping(P, q2)
     /\ step(self, q1, a) # None
     /\ step(self, q2, a) # None)
    => mapping(P, step(self, q1, a)) = mapping(P, step(self, q2, a))

IterationOrders(self) ==
  IF WritersAgree(self, partition(self)) THEN {SetToSeq(self.states)}
  ELSE ListingsOf(self.states)

\* DFA.minimize, for the iteration order of self.states taken by line 143
minimize(self, order) == build_minimized(self, partition(self), order)

\* -------------------------------------------------------------- product
\* lines 170-179: the loop "for a in self.alphabet" of one dequeued pair;
\* st = [prod, queue, visited]
RECURSIVE product_symbols(_, _, _, _, _, _)
product_symbols(self, other_, s1, s2, j, st) ==
  IF j > Len(self.alphabet) THEN st
  ELSE LET a == self.alphabet[j]
           n1 == step(self, s1, a)
           n2 == step(other_, s2, a)
           nxt == <<n1, n2>>
       IN IF n1 = None \/ n2 = None
          THEN product_symbols(self, other_, s1, s2, j + 1, st)
          ELSE LET added == add_transition(st.prod, <<s1, s2>>, a, nxt)
               IN IF IsExc(added) THEN Exc(added.exc)
                  ELSE product_symbols(self, other_, s1, s2, j + 1,
                         IF nxt \notin st.visited
                         THEN [prod |-> added,
                               queue |-> Append(st.queue, nxt),
                               visited |-> st.visited \cup {nxt}]
                         ELSE [st EXCEPT !.prod = added])

\* lines 164-179: the loop "while queue"; every dequeued pair is registered
\* with prod.add_state((s1, s2), accepting=disagree)
RECURSIVE product_loop(_, _, _)
product_loop(self, other_, st) ==
  IF st.queue = << >> THEN st.prod
  ELSE LET s1 == Head(st.queue)[1]
           s2 == Head(st.queue)[2]
           disagree == (s1 \in self.accepting_states) # (s2 \in other_.accepting_states)
           added == add_state(st.prod, <<s1, s2>>, "accepting", disagree)
       IN IF IsExc(added) THEN Exc(added.exc)
          ELSE LET r == product_symbols(self, other_, s1, s2, 1,
                          [st EXCEPT !.prod = added, !.queue = Tail(st.queue)])
               IN IF IsExc(r) THEN r ELSE product_loop(self, other_, r)

\* DFA.product
product(self, other_) ==
  LET start == <<self.start_state, other_.start_state>>
  IN product_loop(self, other_,
       [prod |-> set_start(NewDFA(self.alphabet), start),
        queue |-> <<start>>,
        visited |-> {start}])

\* -------------------------------------------------------- is_equivalent
\* Python truth value of a state or None: None and the empty tuple are false
Truthy(v) == v # None

\* lines 197-201: the loop "for a in prod.alphabet" of one dequeued state;
\* st = [queue, visited]
RECURSIVE reach_symbols(_, _, _, _)
reach_symbols(prod, q, j, st) ==
  IF j > Len(prod.alphabet) THEN st
  ELSE LET nxt == step(prod, q, prod.alphabet[j])
       IN reach_symbols(prod, q, j + 1,
            IF Truthy(nxt) /\ nxt \notin st.visited
            THEN [queue |-> Append(st.queue, nxt),
                  visited |-> st.visited \cup {nxt}]
            ELSE st)

\* lines 193-203: the loop "while queue"
RECURSIVE reach_loop(_, _)
reach_loop(prod, st) ==
  IF st.queue = << >> THEN TRUE
  ELSE LET q == Head(st.queue)
       IN IF q \in prod.accepting_states THEN FALSE
          ELSE reach_loop(prod,
                 reach_symbols(prod, q, 1, [st EXCEPT !.queue = Tail(st.queue)]))

\* DFA.is_equivalent: Returned(TRUE / FALSE), or the exception product raised
is_equivalent(self, other_) ==
  LET prod == product(self, other_)
  IN IF IsExc(prod) THEN prod
     ELSE Returned(reach_loop(prod,
            [queue |-> <<prod.start_state>>, visited |-> {prod.start_state}]))

\* -------------------------------------------------------- decision tree
\* Node.__init__ of decision_tree.py.  An internal node holds value = None;
\* a leaf, Node(value=b), holds value = <<b>> and is written without the
\* fields it leaves at None
Node(feature, threshold, left, right) ==
  [feature |-> feature, threshold |-> threshold,
   left |-> left, right |-> right, value |-> None]

Leaf(b) == [value |-> <<b>>]

\* str.count, str.startswith, str.endswith and the substring test of Python
Count(word, c) == Cardinality({i \in 1 .. Len(word) : word[i] = c})

StartsWith(word, p) ==
  Len(p) <= Len(word) /\ SubSeq(word, 1, Len(p)) = p

EndsWith(word, p) ==
  Len(p) <= Len(word) /\ SubSeq(word, Len(word) - Len(p) + 1, Len(word)) = p

Contains(word, p) ==
  \E i \in 1 .. Len(word) - Len(p) + 1 : SubSeq(word, i, i + Len(p) - 1) = p

Flag(b) == IF b THEN 1 ELSE 0

\* decision_tree.extract_features
extract_features(word) ==
  LET a_count == Count(word, "a")
      b_count == Count(word, "b")
  IN [length |-> Len(word),
      length_mod2 |-> Len(word) % 2,
      length_mod3 |-> Len(word) % 3,
      a_count |-> a_count,
      b_count |-> b_count,
      a_parity |-> a_count % 2,
      b_parity |-> b_count % 2,
      a_mod3 |-> a_count % 3,
      b_mod3 |-> b_count % 3,
      starts_with_a |-> Flag(StartsWith(word, <<"a">>)),
      starts_with_b |-> Flag(StartsWith(word, <<"b">>)),
      ends_with_a |-> Flag(EndsWith(word, <<"a">>)),
      ends_with_b |-> Flag(EndsWith(word, <<"b">>)),
      has_aa |-> Flag(Contains(word, <<"a", "a">>)),
      has_ab |-> Flag(Contains(word, <<"a", "b">>)),
      has_ba |-> Flag(Contains(word, <<"b", "a">>)),
      has_bb |-> Flag(Contains(word, <<"b", "b">>)),
      ends_with_aa |-> Flag(EndsWith(word, <<"a", "a">>)),
      ends_with_ab |-> Flag(EndsWith(word, <<"a", "b">>)),
      ends_with_ba |-> Flag(EndsWith(word, <<"b", "a">>)),
      ends_with_bb |-> Flag(EndsWith(word, <<"b", "b">>)),
      more_a_than_b |-> Flag(a_count > b_count),
      equal_a_b |-> Flag(a_count = b_count)]

FeatureNames == DOMAIN extract_features(<< >>)

\* ------------------------------------------------------------ tree_to_dfa
\* None in the character fields of a primitive state
NoChar == "None"

\* tree_to_dfa.initial_primitive_state
initial_primitive_state ==
  [length |-> 0, a_count |-> 0, b_count |-> 0,
   first_char |-> NoChar, prev_char |-> NoChar, last_char |-> NoChar,
   has_aa |-> 0, has_ab |-> 0, has_ba |-> 0, has_bb |-> 0]

\* update_primitive_state without line 84: prev_char is never advanced
update_primitive_state_stale_prev(state, symbol) ==
  LET length == state.length + 1
      last_ == state.last_char
      pair == <<last_, symbol>>
  IN [length |-> length,
      first_char |-> IF length = 1 THEN symbol ELSE state.first_char,
      a_count |-> IF symbol = "a" THEN state.a_count + 1 ELSE state.a_count,
      b_count |-> IF symbol = "a" THEN state.b_count ELSE state.b_count + 1,
      prev_char |-> state.prev_char,
      has_aa |-> IF last_ # NoChar /\ pair = <<"a", "a">> THEN 1 ELSE state.has_aa,
      has_ab |-> IF last_ # NoChar /\ pair = <<"a", "b">> THEN 1 ELSE state.has_ab,
      has_ba |-> IF last_ # NoChar /\ pair = <<"b", "a">> THEN 1 ELSE state.has_ba,
      has_bb |-> IF last_ # NoChar /\ pair = <<"b", "b">> THEN 1 ELSE state.has_bb,
      last_char |-> symbol]

\* tree_to_dfa.update_primitive_state
update_primitive_state(state, symbol) ==
  LET length == state.length + 1
      last_ == state.last_char
      pair == <<last_, symbol>>
  IN [length |-> length,
      first_char |-> IF length = 1 THEN symbol ELSE state.first_char,
      a_count |-> IF symbol = "a" THEN state.a_count + 1 ELSE state.a_count,
      b_count |-> IF symbol = "a" THEN state.b_count ELSE state.b_count + 1,
      prev_char |-> last_,
      has_aa |-> IF last_ # NoChar /\ pair = <<"a", "a">> THEN 1 ELSE state.has_aa,
      has_ab |-> IF last_ # NoChar /\ pair = <<"a", "b">> THEN 1 ELSE state.has_ab,
      has_ba |-> IF last_ # NoChar /\ pair = <<"b", "a">> THEN 1 ELSE state.has_ba,
      has_bb |-> IF last_ # NoChar /\ pair = <<"b", "b">> THEN 1 ELSE state.has_bb,
      last_char |-> symbol]

\* tree_to_dfa.features_from_primitive_state
features_from_primitive_state(state) ==
  LET length == state.length
      a_count == state.a_count
      b_count == state.b_count
      first_char == state.first_char
      prev_char == state.prev_char
      last_char == state.last_char
      no_pair == prev_char = NoChar \/ last_char = NoChar
      last2 == <<prev_char, last_char>>
  IN [length |-> length,
      length_mod2 |-> length % 2,
      length_mod3 |-> length % 3,
      a_count |-> a_count,
      b_count |-> b_count,
      a_parity |-> a_count % 2,
      b_parity |-> b_count % 2,
      a_mod3 |-> a_count % 3,
      b_mod3 |-> b_count % 3,
      starts_with_a |-> Flag(first_char = "a"),
      starts_with_b |-> Flag(first_char = "b"),
      ends_with_a |-> Flag(last_char = "a"),
      ends_with_b |-> Flag(last_char = "b"),
      has_aa |-> state.has_aa,
      has_ab |-> state.has_ab,
      has_ba |-> state.has_ba,
      has_bb |-> state.has_bb,
      ends_with_aa |-> IF no_pair THEN 0 ELSE Flag(last2 = <<"a", "a">>),
      ends_with_ab |-> IF no_pair THEN 0 ELSE Flag(last2 = <<"a", "b">>),
      ends_with_ba |-> IF no_pair THEN 0 ELSE Flag(last2 = <<"b", "a">>),
      ends_with_bb |-> IF no_pair THEN 0 ELSE Flag(last2 = <<"b", "b">>),
      more_a_than_b |-> Flag(a_count > b_count),
      equal_a_b |-> Flag(a_count = b_count)]

\* tree_to_dfa.predict_tree
RECURSIVE predict_tree(_, _)
predict_tree(node, features) ==
  IF node.value # None THEN node.value[1]
  ELSE IF features[node.feature] <= node.threshold
       THEN predict_tree(node.left, features)
       ELSE predict_tree(node.right, features)

\* primitive_key leaving the last character out of the tuple
primitive_key_without_last(state) ==
  <<state.length, state.a_count, state.b_count,
    state.first_char, state.prev_char,
    state.has_aa, state.has_ab, state.has_ba, state.has_bb>>

\* tree_to_dfa.primitive_key
primitive_key(state) ==
  <<state.length, state.a_count, state.b_count,
    state.first_char, state.prev_char, state.last_char,
    state.has_aa, state.has_ab, state.has_ba, state.has_bb>>

\* tree_to_dfa.ensure_state; ctx = [dfa, state_map, queue, next_id, sid],
\* sid being the identifier the call returns
ensure_state(root, ctx, state) ==
  LET key == primitive_key(state)
  IN IF key \in DOMAIN ctx.state_map
     THEN [ctx EXCEPT !.sid = ctx.state_map[key]]
     ELSE LET sid == ctx.next_id
              is_accepting == predict_tree(root, features_from_primitive_state(state))
              added == add_state(ctx.dfa, Id(sid), "accepting", is_accepting)
          IN IF IsExc(added) THEN Exc(added.exc)
             ELSE [dfa |-> added,
                   state_map |-> (key :> sid) @@ ctx.state_map,
                   queue |-> Append(ctx.queue, state),
                   next_id |-> sid + 1,
                   sid |-> sid]

\* lines 245-248: the loop "for sym in alphabet" of one dequeued state
RECURSIVE expand_symbols(_, _, _, _, _, _)
expand_symbols(root, alphabet, state, sid, j, ctx) ==
  IF j > Len(alphabet) THEN ctx
  ELSE LET sym == alphabet[j]
           e == ensure_state(root, ctx, update_primitive_state(state, sym))
       IN IF IsExc(e) THEN e
          ELSE LET added == add_transition(e.dfa, Id(sid), sym, Id(e.sid))
               IN IF IsExc(added) THEN Exc(added.exc)
                  ELSE expand_symbols(root, alphabet, state, sid, j + 1,
                                      [e EXCEPT !.dfa = added])

\* lines 237-248: the loop "while queue"
RECURSIVE explore(_, _, _, _)
explore(root, max_len, alphabet, ctx) ==
  IF ctx.queue = << >> THEN ctx.dfa
  ELSE LET state == Head(ctx.queue)
           sid == ctx.state_map[primitive_key(state)]
           rest == [ctx EXCEPT !.queue = Tail(ctx.queue)]
       IN IF state.length >= max_len
          THEN explore(root, max_len, alphabet, rest)
          ELSE LET r == expand_symbols(root, alphabet, state, sid, 1, rest)
               IN IF IsExc(r) THEN r
                  ELSE explore(root, max_len, alphabet, r)

\* tree_to_dfa.tree_to_dfa
tree_to_dfa(root, max_len, alphabet) ==
  LET e == ensure_state(root,
             [dfa |-> NewDFA(alphabet), state_map |-> << >>,
              queue |-> << >>, next_id |-> 0, sid |-> 0],
             initial_primitive_state)
  IN IF IsExc(e) THEN e
     ELSE explore(root, max_len, alphabet,
                  [e EXCEPT !.dfa = set_start(e.dfa, Id(e.sid))])

\* ------------------------------------------------------ calls and inputs
\* the receiver after a call, and the name of what the call raised
After(r) == IF IsExc(r) THEN r.self ELSE r

Raised(r) == IF IsExc(r) THEN r.exc ELSE "none"

BuilderIds == IdsBelow(NumBuilderIds)

\* the symbols callers pass: those of the alphabet and one outside it
Symbols == SeqRange(DefaultAlphabet) \cup {"c"}

\* the keywords callers pass the flag of add_state under: positionally
\* (dfa.py line 139) and as accepting=... (dfa.py line 168,
\* tree_to_dfa.py line 226, languages/*.py)
CallerKeywords == {"accepting_states", "accepting"}

\* every automaton over the state identifiers ids that calls of set_start,
\* add_state, set_accepting_state and add_transition can leave behind with
\* the start state set
Automaton(alphabet, S, s0, F, t) ==
  [alphabet |-> alphabet, states |-> S, start_state |-> s0,
   accepting_states |-> F, transitions |-> t]

Total(self) ==
  \A q \in self.states, a \in SeqRange(self.alphabet) : step(self, q, a) # None

\* --------------------------------------- specification: building and asking
Init ==
  /\ dfa = NewDFA(DefaultAlphabet)
  /\ other = NewDFA(DefaultAlphabet)
  /\ last = [op |-> "init"]

AddState ==
  \E s \in BuilderIds, kw \in CallerKeywords, flag \in BOOLEAN :
    LET r == add_state(dfa, s, kw, flag)
    IN /\ dfa' = After(r)
       /\ last' = [op |-> "add_state", state |-> s, kw |-> kw, flag |-> flag,
                   exc |-> Raised(r)]
       /\ UNCHANGED other

SetStart ==
  \E s \in BuilderIds :
    /\ dfa' = set_start(dfa, s)
    /\ last' = [op |-> "set_start", state |-> s, exc |-> "none"]
    /\ UNCHANGED other

SetAcceptingState ==
  \E s \in BuilderIds, val \in BOOLEAN :
    /\ dfa' = set_accepting_state(dfa, s, val)
    /\ last' = [op |-> "set_accepting_state", state |-> s, val |-> val,
                exc |-> "none"]
    /\ UNCHANGED other

AddTransition ==
  \E q_old \in BuilderIds, symbol \in Symbols, q_new \in BuilderIds :
    LET r == add_transition(dfa, q_old, symbol, q_new)
    IN /\ dfa' = After(r)
       /\ last' = [op |-> "add_transition", q_old |-> q_old, symbol |-> symbol,
                   q_new |-> q_new, exc |-> Raised(r)]
       /\ UNCHANGED other

Accepts ==
  \E word \in WordsUpTo(DefaultAlphabet, MaxWordLen) :
    /\ last' = [op |-> "accepts", word |-> word, ret |-> accepts(dfa, word)]
    /\ UNCHANGED <<dfa, other>>

Next == AddState \/ SetStart \/ SetAcceptingState \/ AddTransition \/ Accepts

Spec == Init /\ [][Next]_vars

\* ------------------------------------------------- specification: minimize
\* dfa is any automaton over NumIds identifiers and the default alphabet
InitMin ==
  /\ \E S \in SUBSET IdsBelow(NumIds) :
       \E s0 \in S, F \in SUBSET IdsBelow(NumIds) :
         \E D \in SUBSET (S \X SeqRange(DefaultAlphabet)) : \E t \in [D -> S] :
           dfa = Automaton(DefaultAlphabet, S, s0, F, t)
  /\ other = NewDFA(DefaultAlphabet)
  /\ last = [op |-> "init"]

\* A.minimize()
Minimize ==
  /\ \E order \in IterationOrders(dfa) :
       last' = [op |-> "minimize", ret |-> minimize(dfa, order)]
  /\ UNCHANGED <<dfa, other>>

\* A.minimize().minimize()
MinimizeAgain ==
  /\ last.op = "minimize"
  /\ ~IsExc(last.ret)
  /\ \E order \in IterationOrders(last.ret) :
       last' = [op |-> "minimize.minimize", first |-> last.ret,
                ret |-> minimize(last.ret, order)]
  /\ UNCHANGED <<dfa, other>>

NextMin == Minimize \/ MinimizeAgain

SpecMin == InitMin /\ [][NextMin]_vars

\* dfa is any automaton over the one-letter alphabet with NumSparseIds
\* states, state 0 as the start state and at most MaxEdges transitions
UnaryAlphabet == <<"a">>

InitSparse ==
  /\ \E F \in SUBSET IdsBelow(NumSparseIds) :
       \E D \in SUBSET (IdsBelow(NumSparseIds) \X SeqRange(UnaryAlphabet)) :
         /\ Cardinality(D) <= MaxEdges
         /\ \E t \in [D -> IdsBelow(NumSparseIds)] :
              dfa = Automaton(UnaryAlphabet, IdsBelow(NumSparseIds), Id(0), F, t)
  /\ other = NewDFA(UnaryAlphabet)
  /\ last = [op |-> "init"]

SpecSparse == InitSparse /\ [][NextMin]_vars

\* -------------------------- specification: the refinement loop of minimize
\* A = W.pop() reading the last entry of W without removing it
pop_keeping(W) == [A |-> W[Len(W)], W |-> W]

\* line 110: A = W.pop()
pop(W) == [A |-> W[Len(W)], W |-> SubSeq(W, 1, Len(W) - 1)]

\* the construction calls made before minimize, taken together: they leave
\* dfa with the states 0 .. m-1, the start state 0, the accepting states
\* 0 .. k-1 (some of them not registered as states when k > m) and at most
\* MaxRefineEdges transitions
Populate ==
  /\ last.op = "init"
  /\ \E m \in 1 .. NumRefineIds, k \in 0 .. NumRefineIds :
       \E D \in SUBSET (IdsBelow(m) \X SeqRange(DefaultAlphabet)) :
         /\ Cardinality(D) <= MaxRefineEdges
         /\ \E t \in [D -> IdsBelow(m)] :
              dfa' = Automaton(DefaultAlphabet, IdsBelow(m), Id(0), IdsBelow(k), t)
  /\ last' = [op |-> "populated"]
  /\ UNCHANGED other

\* lines 106-107: P and W before the loop; j is the index of the next symbol
\* of "for c in self.alphabet", past the alphabet when the loop "while W"
\* is at its test
StartRefine ==
  /\ last.op = "populated"
  /\ last' = [op |-> "refine",
              P |-> <<dfa.accepting_states, dfa.states \ dfa.accepting_states>>,
              W |-> <<dfa.accepting_states>>,
              A |-> {},
              j |-> Len(dfa.alphabet) + 1]
  /\ UNCHANGED <<dfa, other>>

\* lines 109-110: while W: A = W.pop()
PopSplitter ==
  /\ last.op = "refine"
  /\ last.j > Len(dfa.alphabet)
  /\ last.W # << >>
  /\ last' = [last EXCEPT !.A = pop(last.W).A, !.W = pop(last.W).W, !.j = 1]
  /\ UNCHANGED <<dfa, other>>

\* lines 111-129: one iteration of "for c in self.alphabet"
SplitOnSymbol ==
  /\ last.op = "refine"
  /\ last.j <= Len(dfa.alphabet)
  /\ LET r == refine_blocks(Preimage(dfa, dfa.alphabet[last.j], last.A),
                            last.P, 1, << >>, last.W)
     IN last' = [last EXCEPT !.P = r.P, !.W = r.W, !.j = last.j + 1]
  /\ UNCHANGED <<dfa, other>>

\* lines 131-149: the worklist is empty; the minimized automaton is built
BuildMinimized ==
  /\ last.op = "refine"
  /\ last.j > Len(dfa.alphabet)
  /\ last.W = << >>
  /\ \E order \in IterationOrders(dfa) :
       last' = [op |-> "minimize", ret |-> build_minimized(dfa, last.P, order)]
  /\ UNCHANGED <<dfa, other>>

NextRefine ==
  Populate \/ StartRefine \/ PopSplitter \/ SplitOnSymbol \/ BuildMinimized

SpecRefine == Init /\ [][NextRefine]_vars

\* minimize runs on one thread: a loop that has a next iteration takes it
SpecRefineFair == SpecRefine /\ WF_vars(PopSplitter \/ SplitOnSymbol)

\* ------------------------------------ specification: product, is_equivalent
\* dfa is any automaton over NumPairIds identifiers, other any total one
\* that starts in state 0
InitPair ==
  /\ \E S \in SUBSET IdsBelow(NumPairIds) :
       \E s0 \in S, F \in SUBSET S :
         \E D \in SUBSET (S \X SeqRange(DefaultAlphabet)) : \E t \in [D -> S] :
           dfa = Automaton(DefaultAlphabet, S, s0, F, t)
  /\ \E F \in SUBSET IdsBelow(NumPairIds) :
       \E t \in [IdsBelow(NumPairIds) \X SeqRange(DefaultAlphabet)
                   -> IdsBelow(NumPairIds)] :
         other = Automaton(DefaultAlphabet, IdsBelow(NumPairIds), Id(0), F, t)
  /\ last = [op |-> "init"]

\* A.product(B)
Product ==
  /\ last' = [op |-> "product", ret |-> product(dfa, other)]
  /\ UNCHANGED <<dfa, other>>

\* A.is_equivalent(B)
IsEquivalent ==
  /\ last' = [op |-> "is_equivalent", with |-> "other",
              ret |-> is_equivalent(dfa, other)]
  /\ UNCHANGED <<dfa, other>>

\* A.is_equivalent(A.minimize())
IsEquivalentMinimized ==
  /\ \E order \in IterationOrders(dfa) :
       last' = [op |-> "is_equivalent", with |-> "minimize",
                ret |-> is_equivalent(dfa, minimize(dfa, order))]
  /\ UNCHANGED <<dfa, other>>

NextPair == Product \/ IsEquivalent \/ IsEquivalentMinimized

SpecPair == InitPair /\ [][NextPair]_vars

\* --------------------------- specification: is_equivalent in both orders
\* dfa and other are any two automata over the default alphabet and
\* NumPairIds identifiers, total or partial, each with its start state set
InitSymmetry ==
  /\ \E S \in SUBSET IdsBelow(NumPairIds) :
       \E s0 \in S, F \in SUBSET S :
         \E D \in SUBSET (S \X SeqRange(DefaultAlphabet)) : \E t \in [D -> S] :
           dfa = Automaton(DefaultAlphabet, S, s0, F, t)
  /\ \E S \in SUBSET IdsBelow(NumPairIds) :
       \E s0 \in S, F \in SUBSET S :
         \E D \in SUBSET (S \X SeqRange(DefaultAlphabet)) : \E t \in [D -> S] :
           other = Automaton(DefaultAlphabet, S, s0, F, t)
  /\ last = [op |-> "init"]

\* A.is_equivalent(A)
IsEquivalentSelf ==
  /\ last' = [op |-> "is_equivalent", with |-> "self",
              ret |-> is_equivalent(dfa, dfa)]
  /\ UNCHANGED <<dfa, other>>

\* A.is_equivalent(B) followed by B.is_equivalent(A)
IsEquivalentBothWays ==
  /\ last' = [op |-> "is_equivalent", with |-> "both",
              ret |-> is_equivalent(dfa, other),
              back |-> is_equivalent(other, dfa)]
  /\ UNCHANGED <<dfa, other>>

NextSymmetry == IsEquivalentSelf \/ IsEquivalentBothWays

SpecSymmetry == InitSymmetry /\ [][NextSymmetry]_vars

\* ------------------------------------------------- specification: querying
\* dfa is any automaton the construction calls leave behind over NumQueryIds
\* identifiers, its start state set or still None and its accepting states
\* registered or not; other is a one-state total automaton
InitQuery ==
  /\ \E S \in SUBSET IdsBelow(NumQueryIds) :
       \E s0 \in S \cup {None}, F \in SUBSET IdsBelow(NumQueryIds) :
         \E D \in SUBSET (S \X SeqRange(DefaultAlphabet)) : \E t \in [D -> S] :
           dfa = Automaton(DefaultAlphabet, S, s0, F, t)
  /\ \E F \in SUBSET {Id(0)} :
       other = Automaton(DefaultAlphabet, {Id(0)}, Id(0), F,
                         [k \in {Id(0)} \X SeqRange(DefaultAlphabet) |-> Id(0)])
  /\ last = [op |-> "init"]

\* the words callers pass to accepts: over the alphabet and the symbol 'c'
CallerWords == WordsUpTo(DefaultAlphabet \o <<"c">>, MaxQueryWordLen)

\* A.step(state, symbol)
Step ==
  \E state \in IdsBelow(NumQueryIds) \cup {None}, symbol \in Symbols :
    LET r == Returned(step(dfa, state, symbol))
    IN /\ last' = [op |-> "step", state |-> state, symbol |-> symbol,
                   ret |-> r.ret, exc |-> Raised(r)]
       /\ UNCHANGED <<dfa, other>>

\* A.accepts(word) for any word a caller may pass
AcceptsAnyWord ==
  \E word \in CallerWords :
    LET r == Returned(accepts(dfa, word))
    IN /\ last' = [op |-> "accepts", word |-> word, ret |-> r.ret,
                   exc |-> Raised(r)]
       /\ UNCHANGED <<dfa, other>>

NextQuery == Step \/ AcceptsAnyWord \/ Minimize \/ Product \/ IsEquivalent

SpecQuery == InitQuery /\ [][NextQuery]_vars

\* ------------------------------- specification: folding a prefix into a key
\* last holds the prefix read so far and the primitive state
\* update_primitive_state has folded it into, from initial_primitive_state()
InitPrefix ==
  /\ dfa = NewDFA(DefaultAlphabet)
  /\ other = NewDFA(DefaultAlphabet)
  /\ last = [op |-> "prefix", word |-> << >>, state |-> initial_primitive_state]

\* state = update_primitive_state(state, symbol) for the next symbol
ReadSymbol ==
  \E symbol \in SeqRange(DefaultAlphabet) :
    /\ Len(last.word) < MaxFeatureWordLen
    /\ last' = [op |-> "prefix", word |-> Append(last.word, symbol),
                state |-> update_primitive_state(last.state, symbol)]
    /\ UNCHANGED <<dfa, other>>

NextPrefix == ReadSymbol

SpecPrefix == InitPrefix /\ [][NextPrefix]_vars

\* ---------------------------------------------- specification: tree_to_dfa
\* the decision trees tried: leaves, one test of any feature, and two
\* levels of tests of the features in TwoLevelFeatures
Thresholds == 0 .. MaxThreshold

Leaves == {Leaf(b) : b \in BOOLEAN}

Stumps(features, children) ==
  {Node(f, th, l, r) :
     f \in features, th \in Thresholds, l \in children, r \in children}

TwoLevelFeatures == {"a_parity", "has_aa", "ends_with_b"}

Trees ==
  Leaves \cup Stumps(FeatureNames, Leaves)
         \cup Stumps(TwoLevelFeatures, Leaves \cup Stumps(TwoLevelFeatures, Leaves))

\* tree_to_dfa(root, max_len) with the default alphabet, called once
TreeToDfa ==
  \E root \in Trees, max_len \in 0 .. MaxPrefixLen :
    /\ last.op = "init"
    /\ last' = [op |-> "tree_to_dfa", root |-> root, max_len |-> max_len,
                ret |-> tree_to_dfa(root, max_len, DefaultAlphabet)]
    /\ UNCHANGED <<dfa, other>>

NextTree == TreeToDfa

SpecTree == Init /\ [][NextTree]_vars

\* --------------------------------- specification: construction by alphabet
\* the alphabets callers construct with: empty, one letter, the default
Alphabets == {<< >>, <<"a">>, DefaultAlphabet}

\* DFA(alphabet)
Construct ==
  \E alphabet \in Alphabets :
    LET r == NewDFA(alphabet)
    IN /\ dfa' = After(r)
       /\ last' = [op |-> "DFA", alphabet |-> alphabet, exc |-> Raised(r)]
       /\ UNCHANGED other

\* tree_to_dfa(root, max_len, alphabet)
TreeToDfaOver ==
  \E root \in Leaves \cup Stumps(FeatureNames, Leaves),
     max_len \in 0 .. MaxPrefixLen, alphabet \in Alphabets :
    /\ last.op # "tree_to_dfa"
    /\ last' = [op |-> "tree_to_dfa", root |-> root, max_len |-> max_len,
                alphabet |-> alphabet,
                ret |-> tree_to_dfa(root, max_len, alphabet)]
    /\ UNCHANGED <<dfa, other>>

NextConstruct == Construct \/ TreeToDfaOver

SpecConstruct == Init /\ [][NextConstruct]_vars

\* ------------------------------------------- specification: the teachers
\* languages/registry.py: LANGUAGES
Languages == {"even_a", "ends_with_ab", "contains_aa", "no_bb", "mod3_a"}

\* the body of each teacher_dfa(): the flags of its calls
\* d.add_state(i, accepting=flag), i = 0, 1, ..., and the rows of its calls
\* d.add_transition(p, symbol, q), in the order they are made
teacher_calls(language) ==
  CASE language = "even_a" ->
         [accepting |-> <<TRUE, FALSE>>,
          transitions |-> << <<0, "a", 1>>, <<1, "a", 0>>,
                             <<0, "b", 0>>, <<1, "b", 1>> >>]
    [] language = "ends_with_ab" ->
         [accepting |-> <<FALSE, FALSE, TRUE>>,
          transitions |-> << <<0, "a", 1>>, <<0, "b", 0>>,
                             <<1, "a", 1>>, <<1, "b", 2>>,
                             <<2, "a", 1>>, <<2, "b", 0>> >>]
    [] language = "contains_aa" ->
         [accepting |-> <<FALSE, FALSE, TRUE>>,
          transitions |-> << <<0, "a", 1>>, <<0, "b", 0>>,
                             <<1, "a", 2>>, <<1, "b", 0>>,
                             <<2, "a", 2>>, <<2, "b", 2>> >>]
    [] language = "no_bb" ->
         [accepting |-> <<TRUE, TRUE, FALSE>>,
          transitions |-> << <<0, "a", 0>>, <<0, "b", 1>>,
                             <<1, "a", 0>>, <<1, "b", 2>>,
                             <<2, "a", 2>>, <<2, "b", 2>> >>]
    [] language = "mod3_a" ->
         [accepting |-> <<TRUE, FALSE, FALSE>>,
          transitions |-> << <<0, "a", 1>>, <<1, "a", 2>>, <<2, "a", 0>>,
                             <<0, "b", 0>>, <<1, "b", 1>>, <<2, "b", 2>> >>]

\* the calls d.add_state(k - 1, accepting=flags[k]) from the k-th on
RECURSIVE teacher_add_states(_, _, _)
teacher_add_states(d, flags, k) ==
  IF k > Len(flags) THEN d
  ELSE LET r == add_state(d, Id(k - 1), "accepting", flags[k])
       IN IF IsExc(r) THEN Exc(r.exc)
          ELSE teacher_add_states(r, flags, k + 1)

\* the calls d.add_transition(p, symbol, q) from the k-th row on
RECURSIVE teacher_add_transitions(_, _, _)
teacher_add_transitions(d, rows, k) ==
  IF k > Len(rows) THEN d
  ELSE LET r == add_transition(d, Id(rows[k][1]), rows[k][2], Id(rows[k][3]))
       IN IF IsExc(r) THEN Exc(r.exc)
          ELSE teacher_add_transitions(r, rows, k + 1)

\* languages/<language>.py: teacher_dfa()
teacher_dfa(language) ==
  LET c == teacher_calls(language)
      d == teacher_add_states(NewDFA(DefaultAlphabet), c.accepting, 1)
  IN IF IsExc(d) THEN d
     ELSE teacher_add_transitions(set_start(d, Id(0)), c.transitions, 1)

\* the language each module documents (its docstring, lines 1-4)
in_language(language, word) ==
  CASE language = "even_a" -> Count(word, "a") % 2 = 0
    [] language = "ends_with_ab" -> EndsWith(word, <<"a", "b">>)
    [] language = "contains_aa" -> Contains(word, <<"a", "a">>)
    [] language = "no_bb" -> ~Contains(word, <<"b", "b">>)
    [] language = "mod3_a" -> Count(word, "a") % 3 = 0

\* KeywordsLibrary.teacher_accepts: Returned(TRUE / FALSE), or the exception
\* teacher_dfa() raised
teacher_accepts(language, word) ==
  LET teacher == teacher_dfa(language)
  IN IF IsExc(teacher) THEN teacher ELSE Returned(accepts(teacher, word))

\* teacher_accepts(language_name, word)
TeacherAccepts ==
  \E language \in Languages, word \in WordsUpTo(DefaultAlphabet, MaxTeacherWordLen) :
    /\ last' = [op |-> "teacher_accepts", language |-> language, word |-> word,
                ret |-> teacher_accepts(language, word)]
    /\ UNCHANGED <<dfa, other>>

NextTeacher == TeacherAccepts

SpecTeacher == Init /\ [][NextTeacher]_vars

\* ------------------------------------------------------------ properties
Words(self) == WordsUpTo(self.alphabet, MaxWordLen)

\* the states a run of self over word passes through, when step is defined
\* for every symbol of word in order
Runs(self, word) ==
  {run \in [0 .. Len(word) -> self.states] :
     /\ run[0] = self.start_state
     /\ \A i \in 1 .. Len(word) : step(self, run[i - 1], word[i]) = run[i]}

\* C1: minimization preserves the language: for every automaton A with a
\* start state (undefined transitions allowed) and every word w,
\* A.accepts(w) = A.minimize().accepts(w).
C1_MinimizePreservesLanguage ==
  last.op = "minimize" =>
    /\ ~IsExc(last.ret)
    /\ \A w \in Words(dfa) : accepts(dfa, w) = accepts(last.ret, w)

\* C2: builder exactness: tree_to_dfa(root, max_len) returns an automaton
\* that accepts a word w of length <= max_len exactly when
\* predict_tree(root, extract_features(w)) holds.
C2_BuilderExactness ==
  last.op = "tree_to_dfa" =>
    /\ ~IsExc(last.ret)
    /\ \A w \in WordsUpTo(DefaultAlphabet, last.max_len) :
         accepts(last.ret, w) = predict_tree(last.root, extract_features(w))

\* C3: A.is_equivalent(B) returns true exactly when A and B accept the same
\* words up to the tested length.
C3_IsEquivalentIffSameWords ==
  (last.op = "is_equivalent" /\ last.with = "other") =>
    /\ ~IsExc(last.ret)
    /\ last.ret.ret <=> \A w \in Words(dfa) : accepts(dfa, w) = accepts(other, w)

\* C4: accepts(word) consumes the whole word: it returns true exactly when
\* step is defined for every symbol of word in order from the start state
\* and the state reached after the last symbol is accepting; the empty word
\* is accepted exactly when the start state is accepting.
C4_AcceptsConsumesWholeWord ==
  last.op = "accepts" =>
    /\ last.ret <=> \E run \in Runs(dfa, last.word) :
                      run[Len(last.word)] \in dfa.accepting_states
    /\ last.word = << >> => (last.ret <=> dfa.start_state \in dfa.accepting_states)

\* a word of two or more symbols is accepted although the state reached
\* after its first symbol is not accepting
C4_Witness ==
  /\ last.op = "accepts"
  /\ Len(last.word) >= 2
  /\ last.ret
  /\ step(dfa, dfa.start_state, last.word[1]) \notin dfa.accepting_states

\* C5: add_transition with a symbol outside the alphabet fails with the
\* invalid-symbol error (ValueError) and leaves states, start state,
\* accepting set and transition table as they were.
C5_InvalidSymbolLeavesAutomaton ==
  [][(last'.op = "add_transition" /\ last'.symbol \notin SeqRange(dfa.alphabet))
       => (last'.exc = "ValueError" /\ dfa' = dfa)]_vars

\* add_transition(q, 'c', q') was refused on an automaton that has a start
\* state and transitions, between states it does not hold
C5_Witness ==
  /\ last.op = "add_transition"
  /\ last.symbol = "c"
  /\ last.exc = "ValueError"
  /\ dfa.start_state # None
  /\ dfa.transitions # << >>
  /\ last.q_new \notin dfa.states

\* C6: for a total automaton A, the states of A.minimize() are pairwise
\* distinguishable (no two of them accept the same words), and
\* A.minimize() accepts the words A accepts.
C6_MinimizedStatesDistinguishable ==
  (last.op = "minimize" /\ Total(dfa)) =>
    /\ ~IsExc(last.ret)
    /\ \A p \in last.ret.states, q \in last.ret.states :
         p # q => \E w \in Words(dfa) :
                    accepts_from(last.ret, p, w, 1) # accepts_from(last.ret, q, w, 1)
    /\ \A w \in Words(dfa) : accepts(dfa, w) = accepts(last.ret, w)

\* a total automaton with NumIds states was minimized to fewer states, but
\* more than one
C6_Witness ==
  /\ last.op = "minimize"
  /\ Total(dfa)
  /\ Cardinality(dfa.states) = NumIds
  /\ ~IsExc(last.ret)
  /\ Cardinality(last.ret.states) > 1
  /\ Cardinality(last.ret.states) < NumIds

\* C7: for every automaton A with a start state, A.minimize().minimize()
\* has as many states as A.minimize().
C7_MinimizeIdempotentCount ==
  last.op = "minimize.minimize" =>
    /\ ~IsExc(last.ret)
    /\ Cardinality(last.ret.states) = Cardinality(last.first.states)

\* C8: the automaton tree_to_dfa returns has a transition for every state
\* and every symbol of the alphabet.
C8_BuiltDfaComplete ==
  last.op = "tree_to_dfa" =>
    /\ ~IsExc(last.ret)
    /\ \A q \in last.ret.states, a \in SeqRange(last.ret.alphabet) :
         step(last.ret, q, a) # None

\* C9: X.is_equivalent(X.minimize()) returns true, and is_equivalent
\* returns false for two automata that disagree on a word along which both
\* define every transition.
C9_EquivalentToOwnMinimization ==
  last.op = "is_equivalent" =>
    /\ last.with = "minimize" => last.ret = Returned(TRUE)
    /\ (/\ last.with = "other"
        /\ \E w \in Words(dfa) :
             /\ Runs(dfa, w) # {}
             /\ Runs(other, w) # {}
             /\ accepts(dfa, w) # accepts(other, w))
       => last.ret = Returned(FALSE)

\* C10: in the automaton A.product(B) returns, a state (p, q) is accepting
\* exactly when one of p (in A) and q (in B) is accepting and the other is
\* not.
C10_ProductAcceptsSymmetricDifference ==
  last.op = "product" =>
    /\ ~IsExc(last.ret)
    /\ \A s \in last.ret.states :
         s \in last.ret.accepting_states
           <=> ((s[1] \in dfa.accepting_states) # (s[2] \in other.accepting_states))

\* C11: after any sequence of add_state, set_start, set_accepting_state and
\* add_transition calls the accepting set is a subset of the state set; in
\* particular set_accepting_state(id, True) on an id not yet registered adds
\* id to states.
C11_AcceptingSubsetOfStates ==
  /\ dfa.accepting_states \subseteq dfa.states
  /\ (last.op = "set_accepting_state" /\ last.val) => last.state \in dfa.states

\* C12: after any sequence of add_state, set_start, set_accepting_state and
\* add_transition calls, every source and every target state of the
\* transition table is in the state set, and the start state, once set, is
\* in the state set.
C12_TransitionsAndStartInStates ==
  /\ \A k \in DOMAIN dfa.transitions :
       k[1] \in dfa.states /\ dfa.transitions[k] \in dfa.states
  /\ dfa.start_state # None => dfa.start_state \in dfa.states

\* add_transition has just registered a target state nothing else had
\* registered, on an automaton whose start state is set
C12_Witness ==
  /\ last.op = "add_transition"
  /\ last.exc = "none"
  /\ last.q_old # last.q_new
  /\ dfa.start_state = last.q_old
  /\ last.q_new \notin dfa.accepting_states
  /\ dfa.transitions = (<<last.q_old, last.symbol>> :> last.q_new)

\* C13: step, accepts, minimize, product and is_equivalent never change the
\* automata they are called on: the receiver and the other operand are the
\* same before and after the call; and minimize and product, called on an
\* automaton whose start state is set, return a new automaton.
C13_QueriesLeaveOperandsUntouched ==
  [][(last'.op \in {"step", "accepts", "minimize", "product", "is_equivalent"})
       => /\ dfa' = dfa
          /\ other' = other
          /\ (last'.op \in {"minimize", "product"} /\ dfa.start_state # None)
               => ~IsExc(last'.ret)]_vars

\* C14: accepts(word) with a word that contains a symbol outside the
\* alphabet raises the invalid-symbol error (ValueError); it never returns a
\* boolean for such a word.
C14_AcceptsRefusesForeignSymbol ==
  (/\ last.op = "accepts"
   /\ \E i \in 1 .. Len(last.word) : last.word[i] \notin SeqRange(dfa.alphabet))
  => last.exc = "ValueError"

\* C15: accepts (for any word, the empty word included), minimize and
\* product called on an automaton whose start state was never set fail
\* with an error instead of using None as a state and returning a result.
C15_UnsetStartFailsFast ==
  dfa.start_state = None =>
    /\ last.op = "accepts" => last.exc # "none"
    /\ last.op \in {"minimize", "product"} => IsExc(last.ret)

\* C16: feature reconstruction agrees with feature extraction: for every
\* word w over ('a', 'b'), folding update_primitive_state over w from
\* initial_primitive_state() and applying features_from_primitive_state
\* gives the feature dictionary extract_features(w) gives, key by key.
C16_ReconstructionAgreesWithExtraction ==
  last.op = "prefix" =>
    /\ DOMAIN features_from_primitive_state(last.state)
         = DOMAIN extract_features(last.word)
    /\ \A f \in FeatureNames :
         features_from_primitive_state(last.state)[f] = extract_features(last.word)[f]

\* a prefix that contains "aa", ends with "ba", starts with "a" and whose
\* length leaves 2 modulo 3 has been folded
C16_Witness ==
  /\ last.op = "prefix"
  /\ extract_features(last.word).has_aa = 1
  /\ extract_features(last.word).ends_with_ba = 1
  /\ extract_features(last.word).starts_with_a = 1
  /\ extract_features(last.word).length_mod3 = 2
  /\ last.state.prev_char = "b"

\* the primitive state tree_to_dfa derives for the prefix word, and the
\* state an automaton is in after reading word from its start state
RECURSIVE prefix_state(_)
prefix_state(word) ==
  IF word = << >> THEN initial_primitive_state
  ELSE update_primitive_state(prefix_state(SubSeq(word, 1, Len(word) - 1)),
                              word[Len(word)])

RECURSIVE state_after(_, _)
state_after(self, word) ==
  IF word = << >> THEN self.start_state
  ELSE step(self, state_after(self, SubSeq(word, 1, Len(word) - 1)),
            word[Len(word)])

\* C17: in the automaton tree_to_dfa returns, two prefixes (of length up to
\* max_len) with the same canonical key are the same state and two prefixes
\* with different keys are different states, and there is one state per
\* distinct key discovered (each key registered, classified and expanded
\* once).
C17_OneStatePerKey ==
  last.op = "tree_to_dfa" =>
    /\ ~IsExc(last.ret)
    /\ \A u \in WordsUpTo(DefaultAlphabet, last.max_len),
          v \in WordsUpTo(DefaultAlphabet, last.max_len) :
         (primitive_key(prefix_state(u)) = primitive_key(prefix_state(v)))
           <=> (state_after(last.ret, u) = state_after(last.ret, v))
    /\ Cardinality(last.ret.states)
         = Cardinality({primitive_key(prefix_state(u)) :
                          u \in WordsUpTo(DefaultAlphabet, last.max_len)})

\* C19: tree_to_dfa with max_len = 0 returns an automaton with exactly one
\* state, the start state (the empty prefix), and no transitions; that
\* state is accepting exactly when the tree accepts the feature vector of
\* the empty prefix.
C19_ZeroLengthIsOneState ==
  (last.op = "tree_to_dfa" /\ last.max_len = 0) =>
    /\ ~IsExc(last.ret)
    /\ last.ret.states = {last.ret.start_state}
    /\ last.ret.transitions = << >>
    /\ last.ret.start_state \in last.ret.accepting_states
         <=> predict_tree(last.root,
                          features_from_primitive_state(initial_primitive_state))

\* C20: constructing with an alphabet of size 0 is rejected: DFA(alphabet)
\* and tree_to_dfa(root, max_len, alphabet) called with an empty alphabet
\* fail with an error instead of returning an automaton.
C20_EmptyAlphabetRejected ==
  /\ (last.op = "DFA" /\ last.alphabet = << >>) => last.exc # "none"
  /\ (last.op = "tree_to_dfa" /\ last.alphabet = << >>) => IsExc(last.ret)

\* C21: tree_to_dfa terminates for every finite non-empty alphabet and every
\* max_len: the exploration ends with the queue empty and the automaton
\* returned, having registered each canonical key at most once, so that the
\* automaton has at most as many states as there are keys of prefixes of
\* length <= max_len.
C21_ExplorationEndsWithAutomaton ==
  (last.op = "tree_to_dfa" /\ last.alphabet # << >>) =>
    /\ ~IsExc(last.ret)
    /\ Cardinality(last.ret.states)
         <= Cardinality({primitive_key(prefix_state(u)) :
                           u \in WordsUpTo(last.alphabet, last.max_len)})

\* C22: for each registered language, teacher_dfa() returns an automaton
\* that is total over {a, b} and accepts a word exactly when the word is in
\* the documented language (even number of 'a'; ends with 'ab'; contains
\* 'aa'; does not contain 'bb'; number of 'a' divisible by 3).
C22_TeacherAcceptsItsLanguage ==
  last.op = "teacher_accepts" =>
    /\ ~IsExc(teacher_dfa(last.language))
    /\ Total(teacher_dfa(last.language))
    /\ last.ret = Returned(in_language(last.language, last.word))

\* C23: add_transition is last write wins: after add_transition(p, s, q)
\* with s in the alphabet, step(p, s) = q whatever target was recorded
\* before, and the entry of every other (state, symbol) pair, the accepting
\* set and the start state are unchanged.
C23_LastWriteWins ==
  [][(last'.op = "add_transition" /\ last'.symbol \in SeqRange(dfa.alphabet))
       => /\ last'.exc = "none"
          /\ step(dfa', last'.q_old, last'.symbol) = last'.q_new
          /\ DOMAIN dfa'.transitions
               = DOMAIN dfa.transitions \cup {<<last'.q_old, last'.symbol>>}
          /\ \A k \in DOMAIN dfa.transitions :
               k # <<last'.q_old, last'.symbol>>
                 => dfa'.transitions[k] = dfa.transitions[k]
          /\ dfa'.accepting_states = dfa.accepting_states
          /\ dfa'.start_state = dfa.start_state]_vars

\* add_transition(p, s, q) has acted on an automaton that has a start
\* state, an accepting state and an entry for every (state, symbol) pair
C23_Witness ==
  /\ last.op = "add_transition"
  /\ last.exc = "none"
  /\ last.q_old # last.q_new
  /\ dfa.start_state # None
  /\ dfa.accepting_states # {}
  /\ DOMAIN dfa.transitions = BuilderIds \X SeqRange(dfa.alphabet)
  /\ \E k \in DOMAIN dfa.transitions : dfa.transitions[k] # last.q_new

\* C24: in the automaton tree_to_dfa returns, the state of a prefix of
\* length max_len has no outgoing transition, and the state of a prefix of
\* length below max_len has, for every symbol of the alphabet, exactly one
\* transition, which leads to the state of the successor key; every state
\* is the state of such a prefix.
C24_TransitionsFollowPrefixLength ==
  last.op = "tree_to_dfa" =>
    /\ ~IsExc(last.ret)
    /\ last.ret.states
         = {state_after(last.ret, u) : u \in WordsUpTo(DefaultAlphabet, last.max_len)}
    /\ \A u \in WordsUpTo(DefaultAlphabet, last.max_len),
          a \in SeqRange(DefaultAlphabet) :
         IF Len(u) = last.max_len
         THEN step(last.ret, state_after(last.ret, u), a) = None
         ELSE /\ step(last.ret, state_after(last.ret, u), a) \in last.ret.states
              /\ \A w \in WordsUpTo(DefaultAlphabet, last.max_len) :
                   primitive_key(prefix_state(w))
                     = primitive_key(update_primitive_state(prefix_state(u), a))
                   => step(last.ret, state_after(last.ret, u), a)
                        = state_after(last.ret, w)

\* the pairs reachable from the pairs R by symbols on which both A and B
\* define a transition
RECURSIVE PairClosure(_, _, _)
PairClosure(A, B, R) ==
  LET N == R \cup {<<step(A, x[1][1], x[2]), step(B, x[1][2], x[2])>> :
                     x \in {y \in R \X SeqRange(A.alphabet) :
                              /\ step(A, y[1][1], y[2]) # None
                              /\ step(B, y[1][2], y[2]) # None}}
  IN IF N = R THEN R ELSE PairClosure(A, B, N)

\* C25: the state set of A.product(B) is exactly the set of pairs (p, q)
\* reachable from (A.start, B.start) by symbols on which both A and B
\* define a transition; the product has the transition
\* (p, q) --a--> (p', q') exactly when A.step(p, a) = p' and
\* B.step(q, a) = q' are both defined, and none on a from (p, q) when
\* either is undefined.
C25_ProductIsReachablePairs ==
  last.op = "product" =>
    /\ ~IsExc(last.ret)
    /\ last.ret.states
         = PairClosure(dfa, other, {<<dfa.start_state, other.start_state>>})
    /\ \A s \in last.ret.states, a \in SeqRange(dfa.alphabet) :
         step(last.ret, s, a)
           = IF step(dfa, s[1], a) # None /\ step(other, s[2], a) # None
             THEN <<step(dfa, s[1], a), step(other, s[2], a)>>
             ELSE None

\* C28: the automaton tree_to_dfa returns rejects every word longer than
\* max_len: a word of length L <= max_len leads to a state whose key has
\* length L, and no state is left for a word longer than max_len.
C28_LongerWordsRejected ==
  last.op = "tree_to_dfa" =>
    /\ ~IsExc(last.ret)
    /\ \A w \in WordsUpTo(DefaultAlphabet, last.max_len + 2) :
         Len(w) > last.max_len
           => (~accepts(last.ret, w) /\ state_after(last.ret, w) = None)

\* the non-empty blocks of a partition list
NonEmptyBlocks(P) == SeqRange(P) \ {{}}

\* C26: throughout minimize's refinement loop the non-empty blocks of P
\* form a partition of the state set (pairwise disjoint, union equal to
\* states) in which every block is wholly accepting or wholly
\* non-accepting, the number of non-empty blocks never decreases, and every
\* entry of the worklist W is a current block of P.
C26_RefinementKeepsPartition ==
  [][last'.op = "refine" =>
       /\ \A k \in DOMAIN last'.P, m \in DOMAIN last'.P :
            k # m => last'.P[k] \cap last'.P[m] = {}
       /\ UNION SeqRange(last'.P) = dfa.states
       /\ \A B \in SeqRange(last'.P) :
            B \subseteq dfa.accepting_states \/ B \cap dfa.accepting_states = {}
       /\ \A B \in SeqRange(last'.W) : B \in SeqRange(last'.P)
       /\ last.op = "refine" =>
            Cardinality(NonEmptyBlocks(last'.P)) >= Cardinality(NonEmptyBlocks(last.P))]_vars

\* C27: minimize terminates on every finite automaton: once the refinement
\* loop is entered, the worklist eventually becomes empty at the loop's
\* test, after which the minimized automaton is built from finite
\* collections.
C27_MinimizeTerminates ==
  (last.op = "refine")
    ~> (last.op = "refine" /\ last.W = << >> /\ last.j > Len(dfa.alphabet))

\* the loop has ended after splitting both initial blocks: the partition
\* has four blocks or more and the worklist is empty
C27_Witness ==
  /\ last.op = "refine"
  /\ last.W = << >>
  /\ last.j > Len(dfa.alphabet)
  /\ Cardinality(NonEmptyBlocks(last.P)) >= 4

\* C29: the canonical key is a congruence for prefix extension: if two
\* prefixes u and v over ('a', 'b') have the same primitive_key, then for
\* every symbol s the prefixes u+s and v+s have the same primitive_key.
C29_KeyIsCongruence ==
  last.op = "prefix" =>
    \A v \in WordsUpTo(DefaultAlphabet, MaxFeatureWordLen) :
      primitive_key(prefix_state(v)) = primitive_key(last.state)
        => \A symbol \in SeqRange(DefaultAlphabet) :
             primitive_key(update_primitive_state(prefix_state(v), symbol))
               = primitive_key(update_primitive_state(last.state, symbol))

\* the prefix folded shares its key with a different prefix
C29_Witness ==
  /\ last.op = "prefix"
  /\ \E v \in WordsUpTo(DefaultAlphabet, MaxFeatureWordLen) :
       /\ v # last.word
       /\ primitive_key(prefix_state(v)) = primitive_key(last.state)

\* C30: add_state takes its acceptance flag under the keyword accepting,
\* the name its callers use: add_state(state, accepting=flag) registers the
\* state, and marks it accepting when flag holds, instead of failing.
C30_AddStateTakesAccepting ==
  (last.op = "add_state" /\ last.kw = "accepting") =>
    /\ last.exc = "none"
    /\ last.state \in dfa.states
    /\ last.flag => last.state \in dfa.accepting_states

\* C31: is_equivalent is reflexive and symmetric: for all automata A and B
\* over the same alphabet with start states set, A.is_equivalent(A) returns
\* true, and A.is_equivalent(B) and B.is_equivalent(A) return the same
\* value.
C31_ReflexiveAndSymmetric ==
  last.op = "is_equivalent" =>
    /\ last.with = "self" => last.ret = Returned(TRUE)
    /\ last.with = "both" =>
         /\ ~IsExc(last.ret)
         /\ ~IsExc(last.back)
         /\ last.ret = last.back

====
